---- MODULE Spec2Model ----
(***************************************************************************)
(* Model of lunatic-rs' AbstractProcessBuilder (src/src/ap/builder.rs):    *)
(* the chaining methods, the three terminal operations start,              *)
(* start_timeout and start_as, and the startup handshake between a caller  *)
(* and the unit it spawns.  The lifecycle entry running inside the spawned *)
(* unit, Tag::new, the spawn primitives and the mailbox are not part of    *)
(* builder.rs; they are modelled from their documented contract.           *)
(***************************************************************************)
EXTENDS Integers, Sequences, FiniteSets, TLC

VARIABLES
    builder,    \* builder[c]: the AbstractProcessBuilder the caller c holds
    pc,         \* pc[c]: "idle" | "wait_init" | "wait_reply" | "panicked"
    counter,    \* counter[c]: the per-process counter behind Tag::new()
    mailbox,    \* mailbox[c]: every message delivered to c, in arrival order
    last,       \* last[c]: the latest start-family call of c, maybe pending
    held,       \* held[c]: the ProcessRefs the calls of c have returned so far
    units,      \* units[u]: the spawned process with id u
    registry,   \* the node-local name registry: a set of [name, ref]
    sends       \* number of messages and requests callers sent to units

vars == <<builder, pc, counter, mailbox, last, held, units, registry, sends>>

----------------------------------------------------------------------------
(* Bounds of the model *)

\* Tag::new() calls one process may make
MaxTags == 3
\* processes spawned over a whole run
MaxUnits == 2
\* one-way messages and requests sent to spawned units over a whole run
MaxSends == 1
\* one-way messages and requests sent to Counters over a whole run
MaxCounterSends == 4

----------------------------------------------------------------------------
(* Values *)

Callers == {"p1", "p2"}
Configs == {"cfg"}
Nodes == {7}
Names == {"counter"}
\* u32, kept as its two 16-bit halves: the value is hi * 2^16 + lo
Half == 2^16
U32(hi, lo) == [hi |-> hi, lo |-> lo]
U32Zero == U32(0, 0)
U32Max == U32(Half - 1, Half - 1)

\* T::Arg: what the user's init does with the argument, and the state it
\* builds from it when it succeeds
Arg(does, s0) == [does |-> does, start |-> s0]
Args == {Arg(does, U32Zero) : does \in {"ok", "bad-arg", "boom", "hang"}}
\* the arguments of the Counter: its init takes every u32 and never fails
CounterArgs == {Arg("ok", s0) : s0 \in {U32Zero, U32(0, 1), U32Max}}

None == <<>>
Some(x) == <<x>>
IsSome(o) == o # None
Unwrap(o) == o[1]

\* Process { node_id, process_id }
ProcessNew(node_id, process_id) == [node |-> node_id, id |-> process_id]
ProcessRef(process) == process
\* Process::this() of a caller
ProcessThis(c) == ProcessNew(0, c)
NodeOf(node) == IF IsSome(node) THEN Unwrap(node) ELSE 0

\* Result<(), StartupError<T>>: what travels on the handshake tag
ReplyOk == [kind |-> "Ok", err |-> None]
ReplyCustom(e) == [kind |-> "Custom", err |-> Some(e)]
ReplyInitPanicked == [kind |-> "InitPanicked", err |-> None]

\* Result<ProcessRef<T>, StartupError<T>>: what a start-family call returns
Ok(ref) == [kind |-> "Ok", ref |-> Some(ref), err |-> None]
Err(e) == [kind |-> e.kind, ref |-> None, err |-> e.err]
ErrTimedOut == [kind |-> "TimedOut", ref |-> None, err |-> None]
ErrNameAlreadyRegistered(ref) ==
    [kind |-> "NameAlreadyRegistered", ref |-> Some(ref), err |-> None]
\* the call has not returned / the call panicked in unimplemented!()
Pending == [kind |-> "Pending", ref |-> None, err |-> None]
Unimplemented == [kind |-> "Unimplemented", ref |-> None, err |-> None]

----------------------------------------------------------------------------
(* The builder's chaining methods, builder.rs 28-75 *)

new == [link |-> None, config |-> None, node |-> None]

\* a link() that takes the tag generated just before the fresh one
LinkStale(self, tag) ==
    [link |-> Some(tag - 1), config |-> self.config, node |-> self.node]

link(self, tag) == [link |-> Some(tag), config |-> self.config, node |-> self.node]

link_with(self, tag) == [link |-> Some(tag), config |-> self.config, node |-> self.node]

\* a configure that builds on a fresh builder, losing the link
ConfigureDropsLink(self, config) ==
    [link |-> None, config |-> Some(config), node |-> self.node]

configure(self, config) == [link |-> self.link, config |-> Some(config), node |-> self.node]

on_node(self, node) == [link |-> self.link, config |-> self.config, node |-> Some(node)]

----------------------------------------------------------------------------
(* Tag::new(): a fresh tag of the calling process *)

TagNew(c) == counter[c] + 1

CanTag(c) == counter[c] < MaxTags

----------------------------------------------------------------------------
(* The match over (self.link, &self.config, self.node): the primitive an  *)
(* arm invokes and the builder options the arm hands to it                *)

SpawnCall(prim, tag, config, node) ==
    [prim |-> prim, tag |-> tag, config |-> config, node |-> node]

\* a match without the rejecting arm: a linked spawn ignores the node
SpawnPrimitiveIgnoringNode(self) ==
    CASE IsSome(self.link) /\ IsSome(self.config) ->
            SpawnCall("spawn_link_config_tag", self.link, self.config, None)
      [] IsSome(self.link) /\ ~IsSome(self.config) ->
            SpawnCall("spawn_link_tag", self.link, None, None)
      [] ~IsSome(self.link) /\ IsSome(self.config) /\ IsSome(self.node) ->
            SpawnCall("spawn_node_config", None, self.config, self.node)
      [] ~IsSome(self.link) /\ ~IsSome(self.config) /\ IsSome(self.node) ->
            SpawnCall("spawn_node", None, None, self.node)
      [] ~IsSome(self.link) /\ IsSome(self.config) /\ ~IsSome(self.node) ->
            SpawnCall("spawn_config", None, self.config, None)
      [] ~IsSome(self.link) /\ ~IsSome(self.config) /\ ~IsSome(self.node) ->
            SpawnCall("spawn", None, None, None)

\* builder.rs 88-120 (start) and 142-174 (start_timeout)
SpawnPrimitive(self) ==
    CASE IsSome(self.link) /\ IsSome(self.node) ->
            SpawnCall("unimplemented", None, None, None)
      [] IsSome(self.link) /\ IsSome(self.config) /\ ~IsSome(self.node) ->
            SpawnCall("spawn_link_config_tag", self.link, self.config, None)
      [] IsSome(self.link) /\ ~IsSome(self.config) /\ ~IsSome(self.node) ->
            SpawnCall("spawn_link_tag", self.link, None, None)
      [] ~IsSome(self.link) /\ IsSome(self.config) /\ IsSome(self.node) ->
            SpawnCall("spawn_node_config", None, self.config, self.node)
      [] ~IsSome(self.link) /\ ~IsSome(self.config) /\ IsSome(self.node) ->
            SpawnCall("spawn_node", None, None, self.node)
      [] ~IsSome(self.link) /\ IsSome(self.config) /\ ~IsSome(self.node) ->
            SpawnCall("spawn_config", None, self.config, None)
      [] ~IsSome(self.link) /\ ~IsSome(self.config) /\ ~IsSome(self.node) ->
            SpawnCall("spawn", None, None, None)

\* a start_as that spawns with the primitives of start
NameSpawnPrimitiveUnnamed(self) == SpawnPrimitive(self)

\* builder.rs 215-258 (start_as)
NameSpawnPrimitive(self) ==
    CASE IsSome(self.link) /\ IsSome(self.node) ->
            SpawnCall("unimplemented", None, None, None)
      [] IsSome(self.link) /\ IsSome(self.config) /\ ~IsSome(self.node) ->
            SpawnCall("name_spawn_link_config_tag", self.link, self.config, None)
      [] IsSome(self.link) /\ ~IsSome(self.config) /\ ~IsSome(self.node) ->
            SpawnCall("name_spawn_link_tag", self.link, None, None)
      [] ~IsSome(self.link) /\ IsSome(self.config) /\ IsSome(self.node) ->
            SpawnCall("name_spawn_node_config", None, self.config, self.node)
      [] ~IsSome(self.link) /\ ~IsSome(self.config) /\ IsSome(self.node) ->
            SpawnCall("name_spawn_node", None, None, self.node)
      [] ~IsSome(self.link) /\ IsSome(self.config) /\ ~IsSome(self.node) ->
            SpawnCall("name_spawn_config", None, self.config, None)
      [] ~IsSome(self.link) /\ ~IsSome(self.config) /\ ~IsSome(self.node) ->
            SpawnCall("name_spawn", None, None, None)

\* a payload that carries the tag of the process' first handshake
EntryDataFirstTag(this, init_tag, arg) == [parent |-> this, tag |-> 1, arg |-> arg]

\* let entry_data = (this, init_tag, arg);
EntryData(this, init_tag, arg) == [parent |-> this, tag |-> init_tag, arg |-> arg]

\* process_name::<T, T::Serializer>(ProcessType::ProcessRef, name)
ProcessName(name) == <<"ProcessRef", name>>

----------------------------------------------------------------------------
(* The runtime's spawn primitives and name registry *)

Terminal == {"Failed", "Panicked", "Terminated", "Crashed"}

\* the process a spawn primitive creates: it has not run yet.  inbox holds
\* every item delivered to it in arrival order, the first `handled` of them
\* have been dispatched; count is the Counter's u32.
NewUnit(call, entry_data) ==
    [ link |-> call.tag, node |-> call.node, data |-> entry_data,
      st |-> "Spawned", trace |-> <<"Spawned">>,
      inbox |-> <<>>, count |-> U32Zero, handled |-> 0, terminated |-> 0 ]

\* the Process a spawn primitive returns for the unit it is about to create
SpawnedProcess(call) == ProcessNew(NodeOf(call.node), Len(units) + 1)

Holders(name) == {r \in registry : r.name = name}

\* a linked process that is still alive is told that its parent died
NotifyLinked(c) ==
    [u \in DOMAIN units |->
        IF /\ IsSome(units[u].link)
           /\ units[u].data.parent = ProcessThis(c)
           /\ units[u].st \notin Terminal
        THEN [units[u] EXCEPT !.inbox =
                Append(@, [kind |-> "LinkDied", tag |-> Unwrap(units[u].link),
                           from |-> c])]
        ELSE units[u]]

----------------------------------------------------------------------------
(* The mailbox: selective receive by tag *)

\* indexes of the messages of c's mailbox a tag_receive(tags) may take
Matching(c, tags) ==
    {i \in DOMAIN mailbox[c] : ~mailbox[c][i].taken /\ mailbox[c][i].tag \in tags}

\* the first of them in arrival order
FirstMatching(c, tags) ==
    CHOOSE i \in Matching(c, tags) : \A j \in Matching(c, tags) : i <= j

Deliver(box, tag, from, body) ==
    Append(box, [tag |-> tag, from |-> from, body |-> body, taken |-> FALSE])

----------------------------------------------------------------------------
(* start, start_timeout and start_as *)

\* start that hands out the handle whatever the reply says
StartResultAlwaysOk(m, process) == Ok(ProcessRef(process))

\* start that reports every failed init as InitPanicked, losing the error
StartResultDropsError(m, process) ==
    IF m.kind = "Ok" THEN Ok(ProcessRef(process)) ELSE Err(ReplyInitPanicked)

\* start that reports every failed init as Custom
StartResultPanicAsCustom(m, process) ==
    IF m.kind = "Ok" THEN Ok(ProcessRef(process))
    ELSE [kind |-> "Custom", ref |-> None, err |-> m.err]

\* start, builder.rs 125-128: the reply on init_tag becomes the call's result
StartResult(m, process) ==
    IF m.kind = "Ok" THEN Ok(ProcessRef(process)) ELSE Err(m)

\* start_timeout that takes the end of the wait for a panic of init
StartTimeoutResultNoTimedOut(r, process) ==
    IF r.ok
    THEN IF r.m.kind = "Ok" THEN Ok(ProcessRef(process)) ELSE Err(r.m)
    ELSE Err(ReplyInitPanicked)

\* start_timeout that returns the handle for every reply that arrives in time
StartTimeoutResultAnyReplyOk(r, process) ==
    IF r.ok THEN Ok(ProcessRef(process)) ELSE ErrTimedOut

\* start_timeout, builder.rs 179-188: r is what tag_receive_timeout returned
StartTimeoutResult(r, process) ==
    IF r.ok
    THEN IF r.m.kind = "Ok" THEN Ok(ProcessRef(process)) ELSE Err(r.m)
    ELSE ErrTimedOut

\* start_as, builder.rs 274-277
StartAsResult(m, process) ==
    IF m.kind = "Ok" THEN Ok(ProcessRef(process)) ELSE Err(m)

\* start_as that builds the holder's handle with its two ids exchanged
StartAsRegisteredSwapped(node_id, process_id) ==
    ErrNameAlreadyRegistered(ProcessRef(ProcessNew(process_id, node_id)))

\* start_as that takes the holder for a process of the local node
StartAsRegisteredLocal(node_id, process_id) ==
    ErrNameAlreadyRegistered(ProcessRef(ProcessNew(0, process_id)))

\* start_as that hands out the process after the holder
StartAsRegisteredOther(node_id, process_id) ==
    ErrNameAlreadyRegistered(ProcessRef(ProcessNew(node_id, process_id + 1)))

\* start_as, builder.rs 262-267: the name is taken, hand out its holder
StartAsRegistered(node_id, process_id) ==
    ErrNameAlreadyRegistered(ProcessRef(ProcessNew(node_id, process_id)))

\* one start-family call: what it was given, the primitive it invoked and
\* with what (spawn), the Process the primitive returned, the unit whose
\* reply it consumed (from), and what it returned
Call(op, self, name, arg, init_tag, spawn, process, result) ==
    [ op |-> op, builder |-> self, name |-> name, arg |-> arg, tag |-> init_tag,
      spawn |-> spawn, process |-> process, from |-> None, result |-> result ]

NoCall == Call("none", new, None, Arg("ok", U32Zero), 0, None, None, Pending)

Last(c) == last[c]

Refs(result) == IF IsSome(result.ref) THEN {Unwrap(result.ref)} ELSE {}

\* the pending call of c returns
Return(c, result, from) ==
    /\ last' = [last EXCEPT ![c].result = result, ![c].from = from]
    /\ held' = [held EXCEPT ![c] = @ \cup Refs(result)]
    /\ pc' = [pc EXCEPT ![c] = "idle"]

\* the arm (Some(_), _, Some(_node)): unimplemented!() panics the caller
Panic(c, op, name, arg, init_tag) ==
    /\ pc' = [pc EXCEPT ![c] = "panicked"]
    /\ last' = [last EXCEPT ![c] =
            Call(op, builder[c], name, arg, init_tag, None, None, Unimplemented)]
    /\ units' = NotifyLinked(c)
    /\ UNCHANGED <<registry, mailbox, held>>

\* one of the six spawning arms, then the caller blocks on init_tag
SpawnAndWait(c, op, name, arg, init_tag, call) ==
    /\ Len(units) < MaxUnits
    /\ LET entry_data == EntryData(ProcessThis(c), init_tag, arg)
       IN  /\ units' = Append(units, NewUnit(call, entry_data))
           /\ last' = [last EXCEPT ![c] =
                  Call(op, builder[c], name, arg, init_tag,
                       Some([call |-> call, data |-> entry_data, name |-> name]),
                       Some(SpawnedProcess(call)), Pending)]
    /\ pc' = [pc EXCEPT ![c] = "wait_init"]
    /\ UNCHANGED <<mailbox, held>>

\* builder.rs 84-120
start(c, arg) ==
    /\ pc[c] = "idle"
    /\ CanTag(c)
    /\ LET init_tag == TagNew(c)
           call == SpawnPrimitive(builder[c])
       IN  /\ counter' = [counter EXCEPT ![c] = init_tag]
           /\ IF call.prim = "unimplemented"
              THEN Panic(c, "start", None, arg, init_tag)
              ELSE /\ SpawnAndWait(c, "start", None, arg, init_tag, call)
                   /\ UNCHANGED registry
    /\ UNCHANGED <<builder, sends>>

\* a start that receives under every tag the process has generated
start_receive_any_tag(c) ==
    /\ pc[c] = "wait_init"
    /\ Last(c).op = "start"
    /\ Matching(c, 1..counter[c]) # {}
    /\ LET i == FirstMatching(c, 1..counter[c])
           m == mailbox[c][i]
       IN  /\ mailbox' = [mailbox EXCEPT ![c][i].taken = TRUE]
           /\ Return(c, StartResult(m.body, Unwrap(Last(c).process)), Some(m.from))
    /\ UNCHANGED <<builder, counter, units, registry, sends>>

\* builder.rs 122-128: mailbox.tag_receive(&[init_tag])
start_receive(c) ==
    /\ pc[c] = "wait_init"
    /\ Last(c).op = "start"
    /\ Matching(c, {Last(c).tag}) # {}
    /\ LET i == FirstMatching(c, {Last(c).tag})
           m == mailbox[c][i]
       IN  /\ mailbox' = [mailbox EXCEPT ![c][i].taken = TRUE]
           /\ Return(c, StartResult(m.body, Unwrap(Last(c).process)), Some(m.from))
    /\ UNCHANGED <<builder, counter, units, registry, sends>>

\* builder.rs 138-174
start_timeout(c, arg) ==
    /\ pc[c] = "idle"
    /\ CanTag(c)
    /\ LET init_tag == TagNew(c)
           call == SpawnPrimitive(builder[c])
       IN  /\ counter' = [counter EXCEPT ![c] = init_tag]
           /\ IF call.prim = "unimplemented"
              THEN Panic(c, "start_timeout", None, arg, init_tag)
              ELSE /\ SpawnAndWait(c, "start_timeout", None, arg, init_tag, call)
                   /\ UNCHANGED registry
    /\ UNCHANGED <<builder, sends>>

\* builder.rs 176-183: tag_receive_timeout(&[init_tag], timeout) returns Ok(m)
start_timeout_receive(c) ==
    /\ pc[c] = "wait_init"
    /\ Last(c).op = "start_timeout"
    /\ Matching(c, {Last(c).tag}) # {}
    /\ LET i == FirstMatching(c, {Last(c).tag})
           m == mailbox[c][i]
       IN  /\ mailbox' = [mailbox EXCEPT ![c][i].taken = TRUE]
           /\ Return(c, StartTimeoutResult([ok |-> TRUE, m |-> m.body],
                                           Unwrap(Last(c).process)),
                     Some(m.from))
    /\ UNCHANGED <<builder, counter, units, registry, sends>>

\* a start_timeout whose wait has no end
start_timeout_expire_never(c) ==
    /\ FALSE
    /\ UNCHANGED vars

\* a start_timeout that kills the unit it spawned when the wait ends
start_timeout_expire_kills(c) ==
    /\ pc[c] = "wait_init"
    /\ Last(c).op = "start_timeout"
    /\ Matching(c, {Last(c).tag}) = {}
    /\ Return(c, ErrTimedOut, None)
    /\ units' = [units EXCEPT ![Unwrap(Last(c).process).id].st = "Terminated"]
    /\ UNCHANGED <<builder, counter, mailbox, registry, sends>>

\* builder.rs 184-187: the wait interval ends with no message tagged init_tag
\* in the mailbox, tag_receive_timeout returns Err(MailboxError::TimedOut)
start_timeout_expire(c) ==
    /\ pc[c] = "wait_init"
    /\ Last(c).op = "start_timeout"
    /\ Matching(c, {Last(c).tag}) = {}
    /\ Return(c, StartTimeoutResult([ok |-> FALSE, m |-> ReplyOk],
                                    Unwrap(Last(c).process)),
              None)
    /\ UNCHANGED <<builder, counter, mailbox, units, registry, sends>>

\* builder.rs 205-269
start_as(c, name, arg) ==
    /\ pc[c] = "idle"
    /\ CanTag(c)
    /\ LET pname == ProcessName(name)
           init_tag == TagNew(c)
           call == NameSpawnPrimitive(builder[c])
       IN  /\ counter' = [counter EXCEPT ![c] = init_tag]
           /\ IF call.prim = "unimplemented"
              THEN Panic(c, "start_as", Some(pname), arg, init_tag)
              ELSE IF Holders(pname) # {}
              THEN \* Err(LunaticError::NameAlreadyRegistered(node_id, process_id))
                   \E r \in Holders(pname) :
                      LET result == StartAsRegistered(r.ref.node, r.ref.id)
                      IN  /\ last' = [last EXCEPT ![c] =
                                Call("start_as", builder[c], Some(pname), arg,
                                     init_tag,
                                     Some([call |-> call, name |-> Some(pname),
                                           data |-> EntryData(ProcessThis(c),
                                                              init_tag, arg)]),
                                     None, result)]
                          /\ held' = [held EXCEPT ![c] = @ \cup Refs(result)]
                          /\ UNCHANGED <<pc, mailbox, units, registry>>
              ELSE /\ SpawnAndWait(c, "start_as", Some(pname), arg, init_tag, call)
                   /\ registry' = registry \cup
                         {[name |-> pname, ref |-> SpawnedProcess(call)]}
    /\ UNCHANGED <<builder, sends>>

\* builder.rs 271-277: mailbox.tag_receive(&[init_tag])
start_as_receive(c) ==
    /\ pc[c] = "wait_init"
    /\ Last(c).op = "start_as"
    /\ Matching(c, {Last(c).tag}) # {}
    /\ LET i == FirstMatching(c, {Last(c).tag})
           m == mailbox[c][i]
       IN  /\ mailbox' = [mailbox EXCEPT ![c][i].taken = TRUE]
           /\ Return(c, StartAsResult(m.body, Unwrap(Last(c).process)), Some(m.from))
    /\ UNCHANGED <<builder, counter, units, registry, sends>>

----------------------------------------------------------------------------
(* The caller's use of the builder between calls *)

\* AbstractProcessBuilder::new()
builder_new(c) ==
    /\ pc[c] = "idle"
    /\ CanTag(c)
    /\ builder[c] # new
    /\ builder' = [builder EXCEPT ![c] = new]
    /\ UNCHANGED <<pc, counter, mailbox, last, held, units, registry, sends>>

\* self.link(): link: Some(Tag::new())
builder_link(c) ==
    /\ pc[c] = "idle"
    /\ CanTag(c)
    /\ builder' = [builder EXCEPT ![c] = link(@, TagNew(c))]
    /\ counter' = [counter EXCEPT ![c] = TagNew(c)]
    /\ UNCHANGED <<pc, mailbox, last, held, units, registry, sends>>

\* self.link_with(tag), with a tag the caller generated earlier
builder_link_with(c, tag) ==
    /\ pc[c] = "idle"
    /\ CanTag(c)
    /\ tag \in 1..counter[c]
    /\ builder[c].link # Some(tag)
    /\ builder' = [builder EXCEPT ![c] = link_with(@, tag)]
    /\ UNCHANGED <<pc, counter, mailbox, last, held, units, registry, sends>>

\* self.configure(config)
builder_configure(c, config) ==
    /\ pc[c] = "idle"
    /\ CanTag(c)
    /\ builder[c].config # Some(config)
    /\ builder' = [builder EXCEPT ![c] = configure(@, config)]
    /\ UNCHANGED <<pc, counter, mailbox, last, held, units, registry, sends>>

\* self.on_node(node)
builder_on_node(c, node) ==
    /\ pc[c] = "idle"
    /\ CanTag(c)
    /\ builder[c].node # Some(node)
    /\ builder' = [builder EXCEPT ![c] = on_node(@, node)]
    /\ UNCHANGED <<pc, counter, mailbox, last, held, units, registry, sends>>

----------------------------------------------------------------------------
(* The example process Counter(u32), counter_abstract_process.rs *)

\* fn init(_: ProcessRef<Self>, start: u32) -> Self { Self(start) }
CounterInit(s0) == s0

\* an increment that leaves the counter as it is
IncrementLost(self) == self

\* fn increment(&mut self) { self.0 += 1; } without overflow checks: wraps
increment(self) ==
    IF self.lo + 1 < Half
    THEN U32(self.hi, self.lo + 1)
    ELSE U32((self.hi + 1) % Half, 0)

\* with overflow checks self.0 += 1 panics when the sum leaves u32
IncrementOverflows(self) == self = U32Max

\* fn count(&self) -> u32 { self.0 }
count(self) == self

----------------------------------------------------------------------------
(* lifecycles::entry, running inside the spawned unit *)

\* what the user's init does with the argument it is given
UserInit(arg) ==
    CASE arg.does = "ok" -> "Ok"
      [] arg.does = "bad-arg" -> "Err"
      [] arg.does = "boom" -> "Panic"
      [] arg.does = "hang" -> "Hang"

\* the reply entry sends to the parent on the handshake tag
InitReply(arg) ==
    CASE UserInit(arg) = "Ok" -> ReplyOk
      [] UserInit(arg) = "Err" -> ReplyCustom(arg.does)
      [] UserInit(arg) = "Panic" -> ReplyInitPanicked

\* the state the unit is in once init has resolved
InitState(arg) ==
    CASE UserInit(arg) = "Ok" -> "Ready"
      [] UserInit(arg) = "Err" -> "Failed"
      [] UserInit(arg) = "Panic" -> "Panicked"

Move(unit, st) == [unit EXCEPT !.st = st, !.trace = Append(@, st)]

\* the states entry takes the unit through, from its first action to the
\* end of init and, when init succeeded, into the dispatch loop
Entered(unit) ==
    LET inited == Move(Move(unit, "Initializing"), InitState(unit.data.arg))
    IN  IF inited.st = "Ready"
        THEN [Move(inited, "Dispatching") EXCEPT
                !.count = CounterInit(unit.data.arg.start)]
        ELSE inited

\* an entry that greets the parent before it reports the outcome of init
entry_greets_first(u) ==
    /\ units[u].st = "Spawned"
    /\ UserInit(units[u].data.arg) # "Hang"
    /\ LET d == units[u].data
       IN  /\ mailbox' = [mailbox EXCEPT ![d.parent.id] =
                   Deliver(Deliver(@, 0, u, [kind |-> "Hello", err |-> None]),
                           d.tag, u, InitReply(d.arg))]
           /\ units' = [units EXCEPT ![u] = Entered(@)]
    /\ UNCHANGED <<builder, pc, counter, last, held, registry, sends>>

\* entry runs the user's init, sends the outcome to the parent on the
\* handshake tag, and enters the dispatch loop or ends the unit
entry(u) ==
    /\ units[u].st = "Spawned"
    /\ UserInit(units[u].data.arg) # "Hang"
    /\ LET d == units[u].data
       IN  /\ mailbox' = [mailbox EXCEPT ![d.parent.id] =
                   Deliver(@, d.tag, u, InitReply(d.arg))]
           /\ units' = [units EXCEPT ![u] = Entered(@)]
    /\ UNCHANGED <<builder, pc, counter, last, held, registry, sends>>

\* one turn of the dispatch loop: the next item of the inbox goes to the
\* message handler, the request handler or the link-trap handler
dispatch(u) ==
    /\ units[u].st = "Dispatching"
    /\ units[u].handled < Len(units[u].inbox)
    /\ LET item == units[u].inbox[units[u].handled + 1]
           unit == [units[u] EXCEPT !.handled = @ + 1]
       IN  CASE item.kind = "Message" ->
                  \* Counter::increment
                  /\ \/ units' = [units EXCEPT ![u] =
                            [unit EXCEPT !.count = increment(@)]]
                     \/ /\ IncrementOverflows(unit.count)
                        /\ units' = [units EXCEPT ![u] = Move(unit, "Crashed")]
                  /\ UNCHANGED mailbox
             [] item.kind = "Request" ->
                  \* Counter::count, replied under the requester's tag
                  /\ units' = [units EXCEPT ![u] = unit]
                  /\ mailbox' = [mailbox EXCEPT ![item.from] =
                         Deliver(@, item.tag, u, [kind |-> "Reply", err |-> None,
                                                  value |-> count(unit.count)])]
             [] item.kind = "LinkDied" ->
                  \* Counter::handle_link_trapped
                  /\ units' = [units EXCEPT ![u] = unit]
                  /\ UNCHANGED mailbox
    /\ UNCHANGED <<builder, pc, counter, last, held, registry, sends>>

\* a stop that leaves the unit in its loop after the termination hook ran
entry_stop_keeps_dispatching(u) ==
    /\ units[u].st = "Dispatching"
    /\ units[u].terminated < 2
    /\ units' = [units EXCEPT ![u].terminated = @ + 1]
    /\ UNCHANGED <<builder, pc, counter, mailbox, last, held, registry, sends>>

\* the stop condition is signalled: the loop ends, Counter::terminate runs,
\* the unit exits and what is left in its inbox is dropped
entry_stop(u) ==
    /\ units[u].st = "Dispatching"
    /\ units' = [units EXCEPT ![u] =
            [Move(Move(@, "Terminating"), "Terminated") EXCEPT
                !.terminated = @ + 1,
                !.inbox = SubSeq(@, 1, units[u].handled)]]
    /\ UNCHANGED <<builder, pc, counter, mailbox, last, held, registry, sends>>

----------------------------------------------------------------------------
(* A caller using the handles its calls returned *)

\* a send to a process that is gone is dropped
Enqueue(ref, item) ==
    [units EXCEPT ![ref.id].inbox =
        IF units[ref.id].st \in Terminal THEN @ ELSE Append(@, item)]

\* ref.increment(): a one-way message
send_message(c, ref) ==
    /\ pc[c] = "idle"
    /\ ref \in held[c]
    /\ sends' = sends + 1
    /\ units' = Enqueue(ref, [kind |-> "Message", tag |-> 0, from |-> c])
    /\ UNCHANGED <<builder, pc, counter, mailbox, last, held, registry>>

\* ref.count(): a request under a fresh tag, the caller waits for the reply
send_request(c, ref) ==
    /\ pc[c] = "idle"
    /\ ref \in held[c]
    /\ CanTag(c)
    /\ sends' = sends + 1
    /\ counter' = [counter EXCEPT ![c] = TagNew(c)]
    /\ units' = Enqueue(ref, [kind |-> "Request", tag |-> TagNew(c), from |-> c])
    /\ pc' = [pc EXCEPT ![c] = "wait_reply"]
    /\ UNCHANGED <<builder, mailbox, last, held, registry>>

\* the reply arrives under the request's tag, the last tag c generated
receive_reply(c) ==
    /\ pc[c] = "wait_reply"
    /\ Matching(c, {counter[c]}) # {}
    /\ mailbox' = [mailbox EXCEPT ![c][FirstMatching(c, {counter[c]})].taken = TRUE]
    /\ pc' = [pc EXCEPT ![c] = "idle"]
    /\ UNCHANGED <<builder, counter, last, held, units, registry, sends>>

----------------------------------------------------------------------------
(* The specification *)

Init ==
    /\ builder = [c \in Callers |-> new]
    /\ pc = [c \in Callers |-> "idle"]
    /\ counter = [c \in Callers |-> 0]
    /\ mailbox = [c \in Callers |-> <<>>]
    /\ last = [c \in Callers |-> NoCall]
    /\ held = [c \in Callers |-> {}]
    /\ units = <<>>
    /\ registry = {}
    /\ sends = 0

\* one caller using the whole interface, and the units it spawns
User == "p1"

Next ==
    \/ builder_new(User)
    \/ builder_link(User)
    \/ \E tag \in 1..MaxTags : builder_link_with(User, tag)
    \/ \E config \in Configs : builder_configure(User, config)
    \/ \E node \in Nodes : builder_on_node(User, node)
    \/ \E arg \in Args : start(User, arg)
    \/ start_receive(User)
    \/ \E arg \in Args : start_timeout(User, arg)
    \/ start_timeout_receive(User)
    \/ start_timeout_expire(User)
    \/ \E name \in Names, arg \in Args : start_as(User, name, arg)
    \/ start_as_receive(User)
    \/ \E u \in DOMAIN units : entry(u)
    \/ \E u \in DOMAIN units : dispatch(u)
    \/ \E u \in DOMAIN units : entry_stop(u)
    \/ /\ sends < MaxSends
       /\ \E u \in DOMAIN units, n \in {0} \cup Nodes :
             send_message(User, ProcessNew(n, u))
    \/ /\ sends < MaxSends
       /\ \E u \in DOMAIN units, n \in {0} \cup Nodes :
             send_request(User, ProcessNew(n, u))
    \/ receive_reply(User)

Spec == Init /\ [][Next]_vars

\* several callers competing for names with start_as
NextRace ==
    \/ \E c \in Callers, config \in Configs : builder_configure(c, config)
    \/ \E c \in Callers, node \in Nodes : builder_on_node(c, node)
    \/ \E c \in Callers, name \in Names, arg \in Args : start_as(c, name, arg)
    \/ \E c \in Callers : start_as_receive(c)
    \/ \E u \in DOMAIN units : entry(u)
    \/ \E u \in DOMAIN units : entry_stop(u)

SpecRace == Init /\ [][NextRace]_vars

\* one caller whose link tags all come from link()
NextLink ==
    \/ builder_new(User)
    \/ builder_link(User)
    \/ \E config \in Configs : builder_configure(User, config)
    \/ \E arg \in Args : start(User, arg)
    \/ start_receive(User)
    \/ \E arg \in Args : start_timeout(User, arg)
    \/ start_timeout_receive(User)
    \/ start_timeout_expire(User)
    \/ \E name \in Names, arg \in Args : start_as(User, name, arg)
    \/ start_as_receive(User)
    \/ \E u \in DOMAIN units : entry(u)
    \/ \E u \in DOMAIN units : entry_stop(u)

SpecLink == Init /\ [][NextLink]_vars

\* one caller making start-family calls, and the units it spawns
NextCalls ==
    \/ \E config \in Configs : builder_configure(User, config)
    \/ \E arg \in Args : start(User, arg)
    \/ start_receive(User)
    \/ \E arg \in Args : start_timeout(User, arg)
    \/ start_timeout_receive(User)
    \/ start_timeout_expire(User)
    \/ \E name \in Names, arg \in Args : start_as(User, name, arg)
    \/ start_as_receive(User)
    \/ \E u \in DOMAIN units : entry(u)
    \/ \E u \in DOMAIN units : entry_stop(u)

SpecCalls == Init /\ [][NextCalls]_vars

\* a fair scheduler: a spawned unit gets to run, a blocked receive returns
\* once a matching message is in the mailbox, the wait of start_timeout ends
Fairness ==
    /\ \A u \in 1..MaxUnits : WF_vars(u \in DOMAIN units /\ entry(u))
    /\ WF_vars(start_receive(User))
    /\ WF_vars(start_as_receive(User))
    /\ WF_vars(start_timeout_receive(User) \/ start_timeout_expire(User))

SpecLive == Init /\ [][NextCalls]_vars /\ Fairness

\* the builder does not look at the argument: one whose init returns Ok and
\* one whose init never returns tell the payloads of two calls apart
BuildArgs == {Arg("ok", U32Zero), Arg("hang", U32Zero)}

\* one caller using every builder method and every start-family call
NextBuild ==
    \/ builder_new(User)
    \/ builder_link(User)
    \/ \E tag \in 1..MaxTags : builder_link_with(User, tag)
    \/ \E config \in Configs : builder_configure(User, config)
    \/ \E node \in Nodes : builder_on_node(User, node)
    \/ \E arg \in BuildArgs : start(User, arg)
    \/ start_receive(User)
    \/ \E arg \in BuildArgs : start_timeout(User, arg)
    \/ start_timeout_receive(User)
    \/ start_timeout_expire(User)
    \/ \E name \in Names, arg \in BuildArgs : start_as(User, name, arg)
    \/ start_as_receive(User)
    \/ \E u \in DOMAIN units : entry(u)

SpecBuild == Init /\ [][NextBuild]_vars

\* one caller starting unlinked Counters on its node and using them
NextCounter ==
    \/ \E arg \in CounterArgs : start(User, arg)
    \/ start_receive(User)
    \/ \E u \in DOMAIN units : entry(u)
    \/ \E u \in DOMAIN units : dispatch(u)
    \/ \E u \in DOMAIN units : entry_stop(u)
    \/ /\ sends < MaxCounterSends
       /\ \E u \in DOMAIN units : send_message(User, ProcessNew(0, u))
    \/ /\ sends < MaxCounterSends
       /\ \E u \in DOMAIN units : send_request(User, ProcessNew(0, u))
    \/ receive_reply(User)

SpecCounter == Init /\ [][NextCounter]_vars

----------------------------------------------------------------------------
(* Vocabulary of the properties *)

\* the latest call of c has returned to c
Returned(c) == last[c].op # "none" /\ last[c].result.kind \notin {"Pending", "Unimplemented"}

\* the latest call of c got a Process from a spawn primitive
HasSpawned(c) == IsSome(last[c].process)

UnitOf(c) == Unwrap(last[c].process).id

\* the unit u is the one the latest call of c spawned, with that call's payload
SpawnedBy(c, u) ==
    /\ u \in DOMAIN units
    /\ units[u].data = EntryData(ProcessThis(c), last[c].tag, last[c].arg)

HandshakeKinds == {"Ok", "Custom", "InitPanicked"}

\* positions in c's mailbox of the handshake replies of unit u
HandshakeReplies(c, u) ==
    {i \in DOMAIN mailbox[c] :
        /\ mailbox[c][i].from = u
        /\ mailbox[c][i].tag = units[u].data.tag
        /\ mailbox[c][i].body.kind \in HandshakeKinds}

\* a step in which c makes a start-family call
CallStep(c) == last'[c].tag # last[c].tag

\* the builder combination start-family calls reject
Unsupported(self) == IsSome(self.link) /\ IsSome(self.node)

----------------------------------------------------------------------------
(* C1: a start call that returned has returned Ok(handle) exactly when the *)
(* user's init of the unit it spawned returned Ok; the handle is then that *)
(* of the unit spawned by this call, on the node the builder names, and    *)
(* the unit's success reply is already in the caller's mailbox.            *)
C1_StartOkIffInitOk ==
    \A c \in Callers :
        (last[c].op = "start" /\ Returned(c)) =>
            /\ HasSpawned(c)
            /\ SpawnedBy(c, UnitOf(c))
            /\ (last[c].result.kind = "Ok") <=> (UserInit(last[c].arg) = "Ok")
            /\ (last[c].result.kind = "Ok") =>
                  /\ last[c].result = Ok(ProcessNew(NodeOf(last[c].builder.node), UnitOf(c)))
                  /\ "Ready" \in {units[UnitOf(c)].trace[i] :
                                    i \in DOMAIN units[UnitOf(c)].trace}
                  /\ \E i \in HandshakeReplies(c, UnitOf(c)) :
                        mailbox[c][i].body = ReplyOk /\ mailbox[c][i].taken

\* start returned Ok for a linked, configured spawn
C1_Witness ==
    \E c \in Callers :
        /\ last[c].op = "start" /\ last[c].result.kind = "Ok"
        /\ IsSome(last[c].builder.link) /\ IsSome(last[c].builder.config)

(* C2: when the user's init returns Err(e), start returns Err(Custom(e))   *)
(* with that e and no handle, and the unit went Spawned, Initializing,     *)
(* Failed: it was never Ready and none of its handlers ever ran.           *)
C2_InitErrIsCustom ==
    /\ \A c \in Callers :
          (last[c].op = "start" /\ Returned(c) /\ UserInit(last[c].arg) = "Err") =>
              /\ last[c].result =
                    [kind |-> "Custom", ref |-> None, err |-> Some(last[c].arg.does)]
              /\ Unwrap(last[c].process) \notin held[c]
              /\ units[UnitOf(c)].st = "Failed"
    /\ \A u \in DOMAIN units :
          units[u].st = "Failed" =>
              /\ units[u].trace = <<"Spawned", "Initializing", "Failed">>
              /\ units[u].handled = 0
              /\ units[u].count = U32Zero

\* the scenario .link().configure(cfg) with an init failing with "bad-arg"
C2_Witness ==
    \E c \in Callers :
        /\ last[c].op = "start" /\ last[c].result.kind = "Custom"
        /\ last[c].arg.does = "bad-arg"
        /\ IsSome(last[c].builder.link) /\ IsSome(last[c].builder.config)

(* C3: when the user's init panics, start returns Err(InitPanicked); the   *)
(* panic reached the caller as a reply on the handshake tag, which the     *)
(* call consumed, and the caller goes on running: a caller only ever       *)
(* panics in a call with the unsupported combination.                      *)
C3_InitPanicIsReply ==
    /\ \A c \in Callers :
          (last[c].op = "start" /\ Returned(c) /\ UserInit(last[c].arg) = "Panic") =>
              /\ last[c].result = [kind |-> "InitPanicked", ref |-> None, err |-> None]
              /\ pc[c] # "panicked"
              /\ units[UnitOf(c)].st = "Panicked"
              /\ \E i \in HandshakeReplies(c, UnitOf(c)) :
                    /\ mailbox[c][i].body = ReplyInitPanicked
                    /\ mailbox[c][i].taken
                    /\ last[c].from = Some(UnitOf(c))
    /\ \A c \in Callers :
          pc[c] = "panicked" =>
              /\ last[c].result = Unimplemented
              /\ Unsupported(last[c].builder)

\* a linked child panicked in init and the caller is back from start
C3_Witness ==
    \E c \in Callers :
        /\ last[c].op = "start" /\ last[c].result.kind = "InitPanicked"
        /\ IsSome(last[c].builder.link)
        /\ pc[c] = "idle"

C5_TimeoutAgreesWithStart ==
    \A c \in Callers :
        (last[c].op = "start_timeout" /\ Returned(c) /\ IsSome(last[c].from)) =>
            /\ last[c].from = Some(UnitOf(c))
            /\ SpawnedBy(c, UnitOf(c))
            /\ last[c].result =
                  StartResult(InitReply(last[c].arg), Unwrap(last[c].process))
            /\ last[c].result =
                  CASE UserInit(last[c].arg) = "Ok" ->
                          Ok(ProcessNew(NodeOf(last[c].builder.node), UnitOf(c)))
                    [] UserInit(last[c].arg) = "Err" ->
                          [kind |-> "Custom", ref |-> None, err |-> Some(last[c].arg.does)]
                    [] UserInit(last[c].arg) = "Panic" ->
                          [kind |-> "InitPanicked", ref |-> None, err |-> None]

\* an init error replied in time to a start_timeout on a remote node
C5_Witness ==
    \E c \in Callers :
        /\ last[c].op = "start_timeout" /\ last[c].result.kind = "Custom"
        /\ IsSome(last[c].from)
        /\ IsSome(last[c].builder.node)

\* the only start-family call c made so far is a start_as
FirstAs(c) == last[c].op = "start_as" /\ last[c].tag = 1 /\ counter[c] = 1

(* C6 as stated: once two callers have both returned from their first      *)
(* start_as of one name, one of them got Ok(h) and the other               *)
(* Err(NameAlreadyRegistered(h)).                                          *)
C6_Original ==
    \A c1, c2 \in Callers :
        ( /\ c1 # c2 /\ FirstAs(c1) /\ FirstAs(c2)
          /\ last[c1].name = last[c2].name
          /\ Returned(c1) /\ Returned(c2) )
        => \E w \in {c1, c2} : \E l \in {c1, c2} \ {w} :
              /\ last[w].result.kind = "Ok"
              /\ last[l].result = ErrNameAlreadyRegistered(Unwrap(last[w].result.ref))

(* C6, amended: of two callers' first start_as calls of one name, exactly  *)
(* one spawns a unit and registers it; that call returns the unit's init   *)
(* outcome (Ok(h) when init returns Ok, Err(Custom(e)) or                  *)
(* Err(InitPanicked) otherwise); the other call spawns nothing and returns *)
(* Err(NameAlreadyRegistered(h')) with h' the handle of the unit the first *)
(* one spawned.                                                            *)
C6_ExactlyOneSpawns ==
    \A c1, c2 \in Callers :
        ( /\ c1 # c2 /\ FirstAs(c1) /\ FirstAs(c2)
          /\ last[c1].name = last[c2].name )
        => \E w \in {c1, c2} : \E l \in {c1, c2} \ {w} :
              /\ HasSpawned(w) /\ ~HasSpawned(l)
              /\ SpawnedBy(w, UnitOf(w))
              /\ Len(units) = 1
              /\ Holders(Unwrap(last[w].name)) =
                    {[name |-> Unwrap(last[w].name), ref |-> Unwrap(last[w].process)]}
              /\ last[l].result = ErrNameAlreadyRegistered(Unwrap(last[w].process))
              /\ Returned(w) =>
                    last[w].result =
                        CASE UserInit(last[w].arg) = "Ok" -> Ok(Unwrap(last[w].process))
                          [] UserInit(last[w].arg) = "Err" ->
                                [kind |-> "Custom", ref |-> None,
                                 err |-> Some(last[w].arg.does)]
                          [] UserInit(last[w].arg) = "Panic" ->
                                [kind |-> "InitPanicked", ref |-> None, err |-> None]

\* the loser returned while the winner, spawned on a remote node, was still
\* waiting, and the winner then got Ok
C6_Witness ==
    \E w, l \in Callers :
        /\ w # l /\ FirstAs(w) /\ FirstAs(l)
        /\ last[w].result.kind = "Ok"
        /\ IsSome(last[w].builder.node)
        /\ last[l].result = ErrNameAlreadyRegistered(Unwrap(last[w].result.ref))

(* C7: a start, start_timeout or start_as call on a builder holding both a *)
(* link and a node panics in unimplemented!(), whatever the config: it     *)
(* invokes no spawn primitive, creates no unit, registers no name and does *)
(* not wait on the handshake tag.                                          *)
C7_LinkedRemoteFailsFast ==
    /\ [](\A c \in Callers :
            (last[c].op # "none" /\ Unsupported(last[c].builder)) =>
                /\ last[c].result = Unimplemented
                /\ last[c].spawn = None
                /\ last[c].process = None
                /\ pc[c] = "panicked")
    /\ [][\A c \in Callers :
            (CallStep(c) /\ Unsupported(builder[c])) =>
                /\ last'[c].builder = builder[c]
                /\ pc'[c] = "panicked"
                /\ Len(units') = Len(units)
                /\ registry' = registry
                /\ mailbox' = mailbox]_vars

\* start_as on .link().configure(cfg).on_node(7)
C7_Witness ==
    \E c \in Callers :
        /\ last[c].op = "start_as"
        /\ Unsupported(last[c].builder) /\ IsSome(last[c].builder.config)
        /\ pc[c] = "panicked"
        /\ registry = {}

(* C8: a start_as call made while the name has a holder returns            *)
(* Err(NameAlreadyRegistered(h)) with h the holder's handle, creates no    *)
(* unit and leaves the registry as it is; a name has at most one holder.   *)
C8_NameHasOneHolder ==
    /\ [](\A r1, r2 \in registry : r1.name = r2.name => r1 = r2)
    /\ [][\A c \in Callers :
            ( /\ CallStep(c) /\ last'[c].op = "start_as"
              /\ ~Unsupported(builder[c])
              /\ Holders(Unwrap(last'[c].name)) # {} )
            => /\ \E r \in Holders(Unwrap(last'[c].name)) :
                     last'[c].result = ErrNameAlreadyRegistered(r.ref)
               /\ last'[c].process = None
               /\ pc'[c] = pc[c]
               /\ units' = units
               /\ registry' = registry]_vars

\* the name is held by a unit on a remote node and a later start_as got it
C8_Witness ==
    \E c \in Callers : \E r \in registry :
        /\ last[c].op = "start_as"
        /\ last[c].result = ErrNameAlreadyRegistered(r.ref)
        /\ r.ref.node # 0
        /\ Len(units) = 1

(* C9: in the mailbox of the caller that spawned it, the handshake reply   *)
(* of a unit comes before every other message of that unit, and there is   *)
(* one such reply at most.                                                 *)
C9_ReplyIsFirstMessage ==
    \A c \in Callers : \A u \in DOMAIN units :
        units[u].data.parent = ProcessThis(c) =>
            /\ Cardinality(HandshakeReplies(c, u)) <= 1
            /\ \A i \in DOMAIN mailbox[c] :
                  (mailbox[c][i].from = u /\ i \notin HandshakeReplies(c, u)) =>
                      \E j \in HandshakeReplies(c, u) : j < i

\* the unit answered a request of the caller that spawned it
C9_Witness ==
    \E c \in Callers : \E i \in DOMAIN mailbox[c] :
        /\ mailbox[c][i].body.kind = "Reply"
        /\ units[mailbox[c][i].from].data.parent = ProcessThis(c)
        /\ i > 1

(* C10: each start-family call generates a handshake tag the process has   *)
(* not generated before and sends that tag in the payload; the handshake   *)
(* tags of the units a process spawned are pairwise different, so a reply  *)
(* waiting in the mailbox under the pending call's tag is that call's.     *)
C10_FreshHandshakeTags ==
    /\ [](\A u1, u2 \in DOMAIN units :
            (u1 # u2 /\ units[u1].data.parent = units[u2].data.parent) =>
                units[u1].data.tag # units[u2].data.tag)
    /\ [](\A c \in Callers :
            pc[c] = "wait_init" =>
                /\ SpawnedBy(c, UnitOf(c))
                /\ \A i \in Matching(c, {last[c].tag}) :
                      mailbox[c][i].from = UnitOf(c))
    /\ [][\A c \in Callers :
            CallStep(c) =>
                /\ last'[c].tag \notin 0..counter[c]
                /\ last'[c].tag = counter'[c]
                /\ IsSome(last'[c].spawn) =>
                      Unwrap(last'[c].spawn).data.tag = last'[c].tag]_vars

\* a call waits for its reply while the reply of an earlier call, which
\* timed out, lies in the mailbox
C10_Witness ==
    \E c \in Callers : \E i \in DOMAIN mailbox[c] :
        /\ pc[c] = "wait_init"
        /\ ~mailbox[c][i].taken
        /\ mailbox[c][i].body.kind \in HandshakeKinds
        /\ mailbox[c][i].from # UnitOf(c)
        /\ Matching(c, {last[c].tag}) # {}

(* the sum x + n of a u32 and a small natural, in halves: the exact sum,   *)
(* whose hi leaves the 16 bits when the sum does not fit a u32, and the    *)
(* sum modulo 2^32                                                         *)
Plus(x, n) == U32(x.hi + (x.lo + n) \div Half, (x.lo + n) % Half)

PlusWrapping(x, n) == U32((x.hi + (x.lo + n) \div Half) % Half, (x.lo + n) % Half)

Fits(x, n) == Plus(x, n).hi < Half

\* the one-way messages delivered to u before its i-th item
Increments(u, i) ==
    Cardinality({j \in 1..(i - 1) : units[u].inbox[j].kind = "Message"})

\* the positions in u's inbox of the request the reply m answers
RequestOf(c, u, m) ==
    {i \in 1..units[u].handled :
        /\ units[u].inbox[i].kind = "Request"
        /\ units[u].inbox[i].tag = m.tag
        /\ units[u].inbox[i].from = c}

Replies(c) == {i \in DOMAIN mailbox[c] : mailbox[c][i].body.kind = "Reply"}

(* C11 as stated: the reply to a count request sent after n increment      *)
(* messages to a Counter started with s is s + n.                          *)
C11_Original ==
    \A c \in Callers : \A k \in Replies(c) :
        LET m == mailbox[c][k]
            u == m.from
        IN  \A i \in RequestOf(c, u, m) :
                m.body.value = Plus(units[u].data.arg.start, Increments(u, i))

(* C11, amended: every reply in a caller's mailbox answers one request of  *)
(* that caller, under the tag of that request; its value is s + n modulo   *)
(* 2^32, for s the state the Counter was started with and n the number of  *)
(* increment messages delivered to it before the request, so it is s + n   *)
(* whenever s + n fits a u32.  The Counter's state is at every moment s    *)
(* plus the increments it has handled, modulo 2^32.                        *)
C11_CountIsStartPlusIncrements ==
    /\ \A c \in Callers : \A k \in Replies(c) :
          LET m == mailbox[c][k]
              u == m.from
              s0 == units[u].data.arg.start
          IN  /\ Cardinality(RequestOf(c, u, m)) = 1
              /\ m.tag \in 1..counter[c]
              /\ \A i \in RequestOf(c, u, m) :
                    /\ m.body.value = PlusWrapping(s0, Increments(u, i))
                    /\ Fits(s0, Increments(u, i)) =>
                          m.body.value = Plus(s0, Increments(u, i))
    /\ \A u \in DOMAIN units :
          units[u].st = "Dispatching" =>
              units[u].count =
                  PlusWrapping(units[u].data.arg.start,
                               Increments(u, units[u].handled + 1))

\* the scenario: a Counter started with 0, three increments, then a count
\* request whose reply, 3, the requester has received
C11_Witness ==
    \E c \in Callers : \E k \in Replies(c) :
        LET m == mailbox[c][k]
        IN  /\ units[m.from].data.arg.start = U32Zero
            /\ units[m.from].link = None
            /\ \E i \in RequestOf(c, m.from, m) : Increments(m.from, i) = 3
            /\ m.body.value = U32(0, 3)
            /\ m.taken

\* the latest call of c returned Err(NameAlreadyRegistered(h))
Registered(c) == last[c].result.kind = "NameAlreadyRegistered"

Holder(c) == units[Unwrap(last[c].result.ref).id]

(* C12 as stated: the handle in Err(NameAlreadyRegistered(h)) is that of a *)
(* unit whose init has succeeded or will succeed, and which has not        *)
(* terminated.                                                             *)
C12_Original ==
    \A c \in Callers :
        Registered(c) =>
            /\ UserInit(Holder(c).data.arg) = "Ok"
            /\ Holder(c).st \notin Terminal

(* C12, amended: the handle in Err(NameAlreadyRegistered(h)) is that of    *)
(* the process registered under the name: a unit an earlier start_as       *)
(* spawned, on the node that call's builder named.  Nothing is promised    *)
(* about its init: the unit is in any state of its lifecycle, and the call *)
(* that returns h spawns no unit of its own and does not wait.             *)
C12_HolderIsRegisteredUnit ==
    \A c \in Callers :
        Registered(c) =>
            LET h == Unwrap(last[c].result.ref)
            IN  /\ last[c].op = "start_as"
                /\ [name |-> Unwrap(last[c].name), ref |-> h] \in registry
                /\ h.id \in DOMAIN units
                /\ h.node = NodeOf(units[h.id].node)
                /\ units[h.id].data # Unwrap(last[c].spawn).data
                /\ h \in held[c]
                /\ last[c].process = None
                /\ pc[c] # "wait_init"

\* start_as returned the handle of a holder whose init had failed before
\* the call was made
C12_Witness ==
    \E c \in Callers :
        /\ Registered(c)
        /\ Holder(c).st = "Failed"
        /\ Holder(c).data.parent = ProcessThis(c)
        /\ Holder(c).data.tag < last[c].tag

\* the link of unit u is outstanding: the unit was spawned linked and lives
Linked(u) == IsSome(units[u].link) /\ units[u].st \notin Terminal

(* C13 as stated: two units one caller spawned through link() never share  *)
(* a link tag while both links are outstanding.                            *)
C13_Original ==
    \A u1, u2 \in DOMAIN units :
        ( /\ u1 # u2 /\ Linked(u1) /\ Linked(u2)
          /\ units[u1].data.parent = units[u2].data.parent )
        => units[u1].link # units[u2].link

(* C13, amended: every link() call generates a tag the process has not     *)
(* generated before, and start, start_timeout and start_as link the unit   *)
(* they spawn with the tag the builder holds, generating none; so a link   *)
(* tag is older than the handshake tag of every unit linked with it and    *)
(* never equals a handshake tag of the process, and units spawned from     *)
(* builders of different link() calls have different link tags, while      *)
(* units spawned from one builder value share its link tag.                *)
C13_FreshPerLinkCall ==
    /\ [](\A u1, u2 \in DOMAIN units :
            (IsSome(units[u1].link)
                /\ units[u1].data.parent = units[u2].data.parent) =>
                /\ Unwrap(units[u1].link) # units[u2].data.tag
                /\ Unwrap(units[u1].link) < units[u1].data.tag)
    /\ [](\A c \in Callers :
            IsSome(builder[c].link) =>
                /\ Unwrap(builder[c].link) \in 1..counter[c]
                /\ \A u \in DOMAIN units :
                      units[u].data.parent = ProcessThis(c) =>
                          Unwrap(builder[c].link) # units[u].data.tag)
    /\ [][\A c \in Callers :
            /\ (builder'[c].link # builder[c].link /\ IsSome(builder'[c].link)) =>
                  /\ Unwrap(builder'[c].link) \notin 0..counter[c]
                  /\ Unwrap(builder'[c].link) = counter'[c]
                  /\ \A u \in DOMAIN units :
                        units[u].data.parent = ProcessThis(c) =>
                            units[u].link # builder'[c].link
            /\ (CallStep(c) /\ IsSome(last'[c].process)) =>
                  /\ units'[Len(units')].link = builder[c].link
                  /\ builder[c].link # Some(last'[c].tag)]_vars

\* a second link() was made while the unit linked through the first one is
\* in its dispatch loop
C13_Witness ==
    \E c \in Callers : \E u \in DOMAIN units :
        /\ Linked(u) /\ units[u].st = "Dispatching"
        /\ units[u].data.parent = ProcessThis(c)
        /\ IsSome(builder[c].link)
        /\ builder[c].link # units[u].link
        /\ Unwrap(builder[c].link) > units[u].data.tag

\* the spawn primitive of the runtime for a combination of options
PrimitiveFor(linked, configured, remote) ==
    CASE linked /\ configured /\ ~remote -> "spawn_link_config_tag"
      [] linked /\ ~configured /\ ~remote -> "spawn_link_tag"
      [] ~linked /\ configured /\ remote -> "spawn_node_config"
      [] ~linked /\ ~configured /\ remote -> "spawn_node"
      [] ~linked /\ configured /\ ~remote -> "spawn_config"
      [] ~linked /\ ~configured /\ ~remote -> "spawn"

NamedPrimitiveFor(linked, configured, remote) ==
    CASE linked /\ configured /\ ~remote -> "name_spawn_link_config_tag"
      [] linked /\ ~configured /\ ~remote -> "name_spawn_link_tag"
      [] ~linked /\ configured /\ remote -> "name_spawn_node_config"
      [] ~linked /\ ~configured /\ remote -> "name_spawn_node"
      [] ~linked /\ configured /\ ~remote -> "name_spawn_config"
      [] ~linked /\ ~configured /\ ~remote -> "name_spawn"

(* C14: a start-family call on one of the six supported combinations       *)
(* invokes one spawn primitive: the linking one, with the builder's link   *)
(* tag, exactly when link is set, with the builder's config exactly when   *)
(* config is set, on the builder's node exactly when node is set, the      *)
(* naming-aware one with the process name exactly for start_as, and with   *)
(* the payload (Process::this(), the call's fresh handshake tag, arg).  A  *)
(* call creates one unit at most, and the unit it creates carries that     *)
(* link tag, node and payload.                                             *)
C14_OnePrimitivePerCombination ==
    /\ [](\A c \in Callers :
            (last[c].op # "none" /\ ~Unsupported(last[c].builder)) =>
                LET b == last[c].builder
                    sp == Unwrap(last[c].spawn)
                IN  /\ IsSome(last[c].spawn)
                    /\ sp.call.tag = b.link
                    /\ sp.call.config = b.config
                    /\ sp.call.node = b.node
                    /\ sp.call.prim =
                          IF last[c].op = "start_as"
                          THEN NamedPrimitiveFor(IsSome(b.link), IsSome(b.config),
                                                 IsSome(b.node))
                          ELSE PrimitiveFor(IsSome(b.link), IsSome(b.config),
                                            IsSome(b.node))
                    /\ sp.data = [parent |-> ProcessThis(c), tag |-> last[c].tag,
                                  arg |-> last[c].arg]
                    /\ sp.name = last[c].name
                    /\ IsSome(sp.name) <=> last[c].op = "start_as")
    /\ [][\A c \in Callers :
            CallStep(c) =>
                /\ last'[c].builder = builder[c]
                /\ IF IsSome(last'[c].process)
                   THEN LET sp == Unwrap(last'[c].spawn)
                        IN  /\ Len(units') = Len(units) + 1
                            /\ SubSeq(units', 1, Len(units)) = units
                            /\ units'[Len(units')].link = sp.call.tag
                            /\ units'[Len(units')].node = sp.call.node
                            /\ units'[Len(units')].data = sp.data
                            /\ units'[Len(units')].st = "Spawned"
                   ELSE Len(units') = Len(units)]_vars

\* start_as spawned a configured unit on a remote node
C14_Witness ==
    \E c \in Callers :
        /\ last[c].op = "start_as" /\ HasSpawned(c)
        /\ Unwrap(last[c].spawn).call.prim = "name_spawn_node_config"
        /\ Unwrap(last[c].spawn).call.node = Some(7)
        /\ units[UnitOf(c)].node = Some(7)

\* every value a builder can take
Builders ==
    [ link : {None} \cup {Some(t) : t \in 1..MaxTags},
      config : {None} \cup {Some(cfg) : cfg \in Configs},
      node : {None} \cup {Some(n) : n \in Nodes} ]

(* C15: link() and link_with(tag) set the link and keep config and node,   *)
(* configure(cfg) sets the config and keeps link and node, on_node(n) sets *)
(* the node and keeps link and config; the link option holds one tag at    *)
(* most, the one of the latest link()/link_with; a step that changes a     *)
(* caller's builder changes one option, or is new(), and is no             *)
(* start-family call; start, start_timeout and start_as, and the receives  *)
(* that end them, leave the builder as it is.                              *)
C15_ChainingSetsOneOption ==
    /\ [](\A self \in {builder[c] : c \in Callers} :
            /\ \A t \in 1..MaxTags :
                  /\ link(self, t) = [self EXCEPT !.link = Some(t)]
                  /\ link_with(self, t) = [self EXCEPT !.link = Some(t)]
            /\ \A cfg \in Configs :
                  configure(self, cfg) = [self EXCEPT !.config = Some(cfg)]
            /\ \A n \in Nodes :
                  on_node(self, n) = [self EXCEPT !.node = Some(n)])
    /\ [](\A c \in Callers : builder[c] \in Builders /\ Len(builder[c].link) <= 1)
    /\ [][\A c \in Callers :
            /\ builder'[c] # builder[c] =>
                  /\ last' = last /\ units' = units /\ pc' = pc
                  /\ \/ builder'[c] = new
                     \/ /\ builder'[c].link # builder[c].link
                        /\ IsSome(builder'[c].link)
                        /\ builder'[c].config = builder[c].config
                        /\ builder'[c].node = builder[c].node
                     \/ /\ builder'[c].config # builder[c].config
                        /\ IsSome(builder'[c].config)
                        /\ builder'[c].link = builder[c].link
                        /\ builder'[c].node = builder[c].node
                     \/ /\ builder'[c].node # builder[c].node
                        /\ IsSome(builder'[c].node)
                        /\ builder'[c].link = builder[c].link
                        /\ builder'[c].config = builder[c].config
            /\ (last'[c] # last[c] \/ pc'[c] # pc[c]) => builder'[c] = builder[c]]_vars

\* a start_timeout returned on a builder that was configured and whose
\* first link tag was replaced by a second one: the builder is as before
C15_Witness ==
    \E c \in Callers :
        /\ last[c].op = "start_timeout" /\ Returned(c)
        /\ builder[c] = last[c].builder
        /\ builder[c].link = Some(2)
        /\ IsSome(builder[c].config)

\* the latest call of c is a start_timeout that returned Err(TimedOut)
TimedOut(c) == last[c].op = "start_timeout" /\ last[c].result = ErrTimedOut

Trace(u) == {units[u].trace[i] : i \in DOMAIN units[u].trace}

(* C17: a unit that reached Ready and whose dispatch loop stopped has run  *)
(* its termination hook once, between leaving the loop and exiting: its    *)
(* states are Spawned, Initializing, Ready, Dispatching, Terminating,      *)
(* Terminated; the hook has not run while the unit is in its loop, never   *)
(* runs for a unit that did not reach Ready, and once it has run no        *)
(* message, request or link-trap handler runs and the unit changes no      *)
(* more.  (A unit whose handler panicked did not stop; it is not covered.) *)
C17_TerminateRunsOnce ==
    /\ [](\A u \in DOMAIN units :
            /\ units[u].terminated <= 1
            /\ units[u].terminated = 1 <=> "Terminating" \in Trace(u)
            /\ units[u].terminated = 1 <=> units[u].st = "Terminated"
            /\ "Ready" \notin Trace(u) => units[u].terminated = 0
            /\ units[u].st = "Dispatching" => units[u].terminated = 0
            /\ units[u].st = "Terminated" =>
                  units[u].trace = <<"Spawned", "Initializing", "Ready",
                                     "Dispatching", "Terminating", "Terminated">>)
    /\ [][\A u \in DOMAIN units :
            /\ units[u].terminated = 1 => units'[u] = units[u]
            /\ units'[u].handled # units[u].handled =>
                  units[u].st = "Dispatching" /\ units[u].terminated = 0
            /\ units'[u].terminated # units[u].terminated =>
                  /\ units[u].st = "Dispatching"
                  /\ units'[u].st = "Terminated"
                  /\ units'[u].handled = units[u].handled
                  /\ units'[u].count = units[u].count]_vars

\* a Counter handled two items and stopped; what was sent to it and not
\* handled by then was dropped
C17_Witness ==
    \E u \in DOMAIN units :
        /\ units[u].st = "Terminated" /\ units[u].terminated = 1
        /\ units[u].handled = 2 /\ Len(units[u].inbox) = 2
        /\ Len(units) = 1
        /\ sends = 4

\* the handshake replies in c's mailbox that no call has consumed and that
\* are not the pending call's
LateReplies(c) ==
    {i \in DOMAIN mailbox[c] :
        /\ mailbox[c][i].body.kind \in HandshakeKinds
        /\ ~mailbox[c][i].taken
        /\ mailbox[c][i].tag # last[c].tag}

(* C18: a start, start_timeout or start_as call consumes one message at    *)
(* most, a reply carrying the tag the call generated, sent by the unit the *)
(* call spawned, and its result is the init outcome of that unit; a reply  *)
(* whose tag is not that of the caller's latest call, such as the late     *)
(* reply of a timed-out start_timeout, is consumed by no call: it stays in *)
(* the mailbox untaken.                                                    *)
C18_ReplyConsumedByItsCall ==
    /\ [](\A c \in Callers :
            (Returned(c) /\ IsSome(last[c].from)) =>
                /\ HasSpawned(c)
                /\ last[c].from = Some(UnitOf(c))
                /\ units[UnitOf(c)].data.tag = last[c].tag
                /\ last[c].result =
                      StartResult(InitReply(last[c].arg), Unwrap(last[c].process))
                /\ \E i \in HandshakeReplies(c, UnitOf(c)) : mailbox[c][i].taken)
    /\ [](\A c \in Callers : \A i \in DOMAIN mailbox[c] :
            (mailbox[c][i].body.kind \in HandshakeKinds /\ mailbox[c][i].taken) =>
                /\ mailbox[c][i].tag = units[mailbox[c][i].from].data.tag
                /\ mailbox[c][i].tag <= last[c].tag)
    /\ [][\A c \in Callers :
            /\ \A i \in LateReplies(c) :
                  /\ mailbox'[c][i] = mailbox[c][i]
                  /\ mailbox[c][i].tag # last'[c].tag
            /\ \A i \in DOMAIN mailbox[c] :
                  (mailbox[c][i].body.kind \in HandshakeKinds
                      /\ mailbox'[c][i].taken /\ ~mailbox[c][i].taken) =>
                      /\ pc[c] = "wait_init" /\ pc'[c] = "idle"
                      /\ mailbox[c][i].tag = last[c].tag
                      /\ last'[c].from = Some(mailbox[c][i].from)]_vars

\* start_timeout timed out on a unit whose init then failed; a later start
\* returned Ok for its own unit while the late Custom reply lies untaken
C18_Witness ==
    \E c \in Callers : \E i \in LateReplies(c) :
        /\ mailbox[c][i].body.kind = "Custom"
        /\ last[c].op = "start" /\ last[c].result.kind = "Ok"
        /\ last[c].from = Some(UnitOf(c))
        /\ mailbox[c][i].from # UnitOf(c)
        /\ i < Len(mailbox[c])

\* c is blocked in the receive of a call of one of the operations ops
Waiting(c, ops) == pc[c] = "wait_init" /\ last[c].op \in ops

====
